---- MODULE Spec2Model ----
(***************************************************************************)
(* A model of the DPLL solver of lenary/sat: the assumption store          *)
(* (src/src/assumptions.rs), clause status (src/src/clause.rs), unit       *)
(* propagation (src/src/unit_propagation.rs), pure literal elimination     *)
(* (src/src/pure_literal_elimination.rs) and the driver (src/src/dpll.rs). *)
(*                                                                         *)
(* Two programs run on the store.  With pc = "loop" at the start the       *)
(* program is dpll::satisfiable on an input clause list; with pc = "api"   *)
(* it is an arbitrary client calling assume / new_inference /              *)
(* rollback_inference directly, as the unit tests of assumptions.rs do.    *)
(*                                                                         *)
(* Further programs exercise one module each: a client of Clause           *)
(* (pc = "clause"), one call of propagate or eliminate on any clause list  *)
(* and store (PassSpec), Literal::from_dimacs and to_dimacs                *)
(* (src/src/literal.rs, pc = "from_dimacs"), and dimacs::parse             *)
(* (src/src/dimacs.rs, pc = "parse") reading its input line by line.       *)
(***************************************************************************)
EXTENDS Integers, Sequences, FiniteSets, TLC

VARIABLES
    clauses,             \* dpll.rs: the `clauses` argument of satisfiable
    assumptions,         \* AssumptionStore.assumptions
    rollback_boundaries, \* AssumptionStore.rollback_boundaries
    pc,                  \* where the running program is
    result,              \* how satisfiable ended: "Running", "Some", "None",
                         \* "PanicAssert" (eliminate), "PanicRollback"
    new_lit,             \* make_guess: the literal being guessed
    worklist,            \* propagate: the VecDeque of literals
    entry,               \* history: the store at the last call of make_guess
    guesses_true,        \* history: number of make_guess calls that returned true
    pure,                \* history: the literals the last eliminate assumed
    call,                \* history: the last call made by the store's client
    checkpoints,         \* history: the store at each unmatched new_inference
    clause,              \* a Clause under construction by add_literal
    dimacs,              \* the i32 passed to Literal::from_dimacs
    parsed_lit,          \* the Option<Literal> from_dimacs returned
    text,                \* the String to_dimacs returned, as its characters
    parse,               \* dimacs::parse: its locals and what it returned
    input                \* history: the lines parse has read

vars == <<clauses, assumptions, rollback_boundaries, pc, result, new_lit,
          worklist, entry, guesses_true, pure, call, checkpoints, clause,
          dimacs, parsed_lit, text, parse, input>>

\* What the solver and the store's client leave alone.
io == <<clause, dimacs, parsed_lit, text, parse, input>>

(***************************************************************************)
(* Bounds of the model.                                                    *)
(***************************************************************************)
NumVars == 3          \* variables are 1..NumVars
MaxClauses == 4       \* clauses in an input clause list
MaxClauseLen == 3     \* literals in an input clause
MaxTautologyLen == 2  \* literals in an input clause holding x and not-x
MaxFairClauses == 3   \* clauses in an input clause list of the liveness check
MaxTrail == 3         \* trail length up to which the store's client calls assume
MaxBoundaries == 2    \* boundaries up to which the client calls new_inference
MaxPassClauses == 3   \* clauses in the clause list of a direct call of a pass
MaxPreTrail == 1      \* trail entries before a direct call of a pass
MaxLines == 3         \* lines of an input of parse
MaxLineToks == 3      \* tokens on a clause line
MaxDeclared == 2      \* the clause counts 0..MaxDeclared on a problem line
MaxInputVar == 2      \* the literals -MaxInputVar..MaxInputVar on a clause line
MaxDimacs == 120      \* from_dimacs is called on -MaxDimacs..MaxDimacs, and
                      \* on the integers at the ends of i32 and next to a
                      \* power of ten

Variables == 1..NumVars

Min(S) == CHOOSE x \in S : \A y \in S : x <= y

(***************************************************************************)
(* literal.rs                                                              *)
(***************************************************************************)
Literal(v, p) == [variable |-> v, polarity |-> p]

negate(l) == [variable |-> l.variable, polarity |-> ~l.polarity]

Literals == {Literal(v, p) : v \in Variables, p \in BOOLEAN}

\* Option<T>
None == [tag |-> "None"]
Some(x) == [tag |-> "Some", value |-> x]

\* i32
I32Max == 2147483647
I32Min == -I32Max - 1

\* i32::checked_abs: None on overflow, which is at i32::MIN alone.
checked_abs(x) ==
    IF x = I32Min THEN None ELSE Some(IF x < 0 THEN -x ELSE x)

\* from_dimacs; `v as u32` keeps the value of an i32 that is not negative.
from_dimacs(d) ==
    LET is_positive == d > 0
        a == checked_abs(d)
    IN  IF a = None \/ a.value = 0 THEN None
        ELSE Some(Literal(a.value, is_positive))

\* A String is the sequence of its characters.  format!("{}", n) of a u32:
\* the decimal digits of n, the most significant first, "0" for 0.
DigitChars == <<"0", "1", "2", "3", "4", "5", "6", "7", "8", "9">>

RECURSIVE Digits(_)
Digits(n) ==
    IF n < 10 THEN <<DigitChars[n + 1]>>
    ELSE Append(Digits(n \div 10), DigitChars[(n % 10) + 1])

\* Mutant of to_dimacs: the digits without the sign.
to_dimacs_unsigned(l) == Digits(l.variable)

to_dimacs(l) ==
    IF l.polarity THEN Digits(l.variable) ELSE <<"-">> \o Digits(l.variable)

\* str::parse::<i32> of the standard library, which dimacs::parse calls on
\* every token: an optional sign, then one or more decimal digits,
\* accumulated digit by digit with checked arithmetic (towards i32::MIN
\* after a "-"); None is Err.
DigitOf(ch) == CHOOSE d \in 0..9 : DigitChars[d + 1] = ch

IsDigit(ch) == \E d \in 0..9 : DigitChars[d + 1] = ch

RECURSIVE accumulate_i32(_, _, _, _)
accumulate_i32(digits, i, acc, negative) ==
    IF i > Len(digits) THEN Some(acc)
    ELSE LET d == DigitOf(digits[i])
         IN  IF negative
             THEN IF acc >= (I32Min + d + 9) \div 10
                  THEN accumulate_i32(digits, i + 1, acc * 10 - d, negative)
                  ELSE None
             ELSE IF acc <= (I32Max - d) \div 10
                  THEN accumulate_i32(digits, i + 1, acc * 10 + d, negative)
                  ELSE None

parse_i32(str) ==
    IF str = <<>> THEN None
    ELSE LET signed == str[1] \in {"-", "+"}
             digits == IF signed THEN Tail(str) ELSE str
         IN  IF digits = <<>> \/ \E i \in 1..Len(digits) : ~IsDigit(digits[i])
             THEN None
             ELSE accumulate_i32(digits, 1, 0, str[1] = "-")

(***************************************************************************)
(* assumptions.rs                                                          *)
(***************************************************************************)
Unknown == [tag |-> "Unknown"]
Assume(b) == [tag |-> "Assume", value |-> b]

\* self.iter().find(|l| l.variable() == var): the index of the newest entry
\* on `var`, 0 when there is none (iter walks the trail backwards).
RECURSIVE rfind(_, _, _)
rfind(A, var, i) ==
    IF i = 0 THEN 0
    ELSE IF A[i].variable = var THEN i
    ELSE rfind(A, var, i - 1)

iter_find(A, var) == rfind(A, var, Len(A))

get_var(A, var) ==
    LET i == iter_find(A, var)
    IN  IF i = 0 THEN Unknown ELSE Assume(A[i].polarity)

get_lit(A, lit) ==
    LET i == iter_find(A, lit.variable)
    IN  IF i = 0 THEN Unknown ELSE Assume(A[i].polarity = lit.polarity)

\* Mutant of assume: the check against the previous assumption is missing.
assume_unchecked(A, lit) == [ok |-> TRUE, assumptions |-> Append(A, lit)]

\* Mutant of assume: the literal is pushed before the conflict is looked for.
assume_push_first(A, lit) ==
    LET i == iter_find(A, lit.variable)
    IN  [ok |-> ~(i # 0 /\ A[i].polarity # lit.polarity),
         assumptions |-> Append(A, lit)]

\* Mutant of assume: a literal the trail binds already is not pushed again.
assume_once(A, lit) ==
    LET i == iter_find(A, lit.variable)
    IN  IF i # 0 /\ A[i].polarity # lit.polarity
        THEN [ok |-> FALSE, assumptions |-> A]
        ELSE [ok |-> TRUE, assumptions |-> IF i # 0 THEN A ELSE Append(A, lit)]

\* assume: the returned bool and the assumption list afterwards.
assume(A, lit) ==
    LET i == iter_find(A, lit.variable)
    IN  IF i # 0 /\ A[i].polarity # lit.polarity
        THEN [ok |-> FALSE, assumptions |-> A]
        ELSE [ok |-> TRUE, assumptions |-> Append(A, lit)]

\* Mutant of new_inference: no boundary is pushed.
new_inference_skip(A, B) == B

\* Mutant of new_inference: the boundary is the index of the newest entry,
\* counted from one.
new_inference_next(A, B) == Append(B, Len(A) + 1)

new_inference(A, B) == Append(B, Len(A))

\* Mutant of rollback_inference: truncate(idx + 1).
rollback_off_by_one(A, B) ==
    IF B = <<>>
    THEN [panic |-> TRUE, assumptions |-> A, rollback_boundaries |-> B]
    ELSE LET idx == B[Len(B)] + 1
         IN  [panic |-> FALSE,
              assumptions |-> IF idx < Len(A) THEN SubSeq(A, 1, idx) ELSE A,
              rollback_boundaries |-> SubSeq(B, 1, Len(B) - 1)]

\* Mutant of rollback_inference: the boundary is popped, the trail is kept.
rollback_no_truncate(A, B) ==
    IF B = <<>>
    THEN [panic |-> TRUE, assumptions |-> A, rollback_boundaries |-> B]
    ELSE [panic |-> FALSE, assumptions |-> A,
          rollback_boundaries |-> SubSeq(B, 1, Len(B) - 1)]

\* Mutant of rollback_inference: last() for pop(), the boundary stays.
rollback_no_pop(A, B) ==
    IF B = <<>>
    THEN [panic |-> TRUE, assumptions |-> A, rollback_boundaries |-> B]
    ELSE LET idx == B[Len(B)]
         IN  [panic |-> FALSE,
              assumptions |-> IF idx < Len(A) THEN SubSeq(A, 1, idx) ELSE A,
              rollback_boundaries |-> B]

\* rollback_inference: pop a boundary and truncate; panic on an empty stack.
\* Vec::truncate leaves a vector shorter than idx as it is.
rollback_inference(A, B) ==
    IF B = <<>>
    THEN [panic |-> TRUE, assumptions |-> A, rollback_boundaries |-> B]
    ELSE LET idx == B[Len(B)]
         IN  [panic |-> FALSE,
              assumptions |-> IF idx < Len(A) THEN SubSeq(A, 1, idx) ELSE A,
              rollback_boundaries |-> SubSeq(B, 1, Len(B) - 1)]

(***************************************************************************)
(* clause.rs                                                               *)
(***************************************************************************)
\* self.0.iter().enumerate().find(|(_, l)| l.variable() == var), from index i
\* on: the index of the first literal on `var`, 0 when there is none.
RECURSIVE find_var(_, _, _)
find_var(c, var, i) ==
    IF i > Len(c) THEN 0
    ELSE IF c[i].variable = var THEN i
    ELSE find_var(c, var, i + 1)

get_this_var(c, var) ==
    LET i == find_var(c, var, 1)
    IN  IF i = 0 THEN None ELSE Some([index |-> i, literal |-> c[i]])

\* add_literal: the clause after the call.  The polarity compared is that of
\* the one literal get_this_var returns, the first on the variable.
add_literal(c, lit) ==
    LET found == get_this_var(c, lit.variable)
    IN  IF found # None
        THEN IF found.value.literal.polarity # lit.polarity
             THEN Append(c, lit)
             ELSE c
        ELSE Append(c, lit)

\* Mutant of is_unsatisfiable: any() for all().
is_unsatisfiable_any(c, A) ==
    \E i \in 1..Len(c) : get_lit(A, c[i]) = Assume(FALSE)

is_unsatisfiable(c, A) ==
    \A i \in 1..Len(c) : get_lit(A, c[i]) = Assume(FALSE)

is_satisfied(c, A) ==
    \E i \in 1..Len(c) : get_lit(A, c[i]) = Assume(TRUE)

\* Mutant of get_unit_scan: a literal that is Assume(true) is passed over.
RECURSIVE get_unit_scan_skip_true(_, _, _, _)
get_unit_scan_skip_true(c, A, i, unit) ==
    IF i > Len(c) THEN unit
    ELSE IF get_lit(A, c[i]) = Unknown
    THEN IF unit = None
         THEN get_unit_scan_skip_true(c, A, i + 1, Some(c[i]))
         ELSE None
    ELSE get_unit_scan_skip_true(c, A, i + 1, unit)

\* The `for lit in self.iter()` loop of get_unit, from literal i on, with the
\* value of `unit` so far.
RECURSIVE get_unit_scan(_, _, _, _)
get_unit_scan(c, A, i, unit) ==
    IF i > Len(c) THEN unit
    ELSE LET s == get_lit(A, c[i])
         IN  IF s = Unknown
             THEN IF unit = None
                  THEN get_unit_scan(c, A, i + 1, Some(c[i]))
                  ELSE None
             ELSE IF s = Assume(TRUE) THEN None
             ELSE get_unit_scan(c, A, i + 1, unit)

\* Mutant of get_unit: no clause is ever a unit.
get_unit_never(c, A) == None

get_unit(c, A) == get_unit_scan(c, A, 1, None)

(***************************************************************************)
(* dimacs.rs.  A line is the sequence of its tokens, the pieces between    *)
(* ASCII whitespace, each a String, and whether whitespace leads it; a     *)
(* line that could not be read carries err.                                *)
(***************************************************************************)
Line(lead, toks) == [err |-> FALSE, lead |-> lead, toks |-> toks]

ReadError == [err |-> TRUE, lead |-> FALSE, toks |-> <<>>]

\* make_ascii_lowercase, on the letters of the model's alphabet.
lowercase_char(ch) ==
    CASE ch = "P" -> "p"
      [] ch = "C" -> "c"
      [] ch = "N" -> "n"
      [] ch = "F" -> "f"
      [] OTHER -> ch

make_ascii_lowercase(toks) ==
    [i \in 1..Len(toks) |-> [j \in 1..Len(toks[i]) |-> lowercase_char(toks[i][j])]]

\* line.starts_with(ch), of a lowercased line
starts_with(line, ch) ==
    ~line.lead /\ line.toks # <<>> /\ lowercase_char(line.toks[1][1]) = ch

\* line.chars().all(|c| c.is_ascii_digit() || c == '-' || c.is_ascii_whitespace())
only_clause_chars(toks) ==
    \A i \in 1..Len(toks) : \A j \in 1..Len(toks[i]) :
        IsDigit(toks[i][j]) \/ toks[i][j] = "-"

Rejected(st) == [st EXCEPT !.ret = "None"]

\* The body of the branch of a problem line.
problem_line(st, parts) ==
    IF st.found_problem THEN Rejected(st)
    ELSE IF Len(parts) # 4 THEN Rejected(st)
    ELSE IF parts[1] # <<"p">> \/ parts[2] # <<"c", "n", "f">> THEN Rejected(st)
    ELSE LET len == parse_i32(parts[4])
         IN  IF len = None THEN Rejected(st)
             ELSE [st EXCEPT !.clauses_left = len.value, !.found_problem = TRUE]

\* `for dimacs_lit_str in line.split_ascii_whitespace()`, from token i on.
RECURSIVE clause_tokens(_, _, _)
clause_tokens(st, toks, i) ==
    IF i > Len(toks) THEN st
    ELSE LET dimacs_lit == parse_i32(toks[i])
         IN  IF dimacs_lit = None THEN Rejected(st)
             ELSE LET l == from_dimacs(dimacs_lit.value)
                  IN  IF l # None
                      THEN clause_tokens(
                               [st EXCEPT !.current_clause = add_literal(@, l.value)],
                               toks, i + 1)
                      ELSE clause_tokens(
                               [st EXCEPT !.all_clauses = Append(@, st.current_clause),
                                          !.current_clause = <<>>,
                                          !.clauses_left = @ - 1],
                               toks, i + 1)

\* The body of `for res in buf.lines()` on one line.
parse_line(st, line) ==
    IF line.err THEN Rejected(st)
    ELSE LET toks == make_ascii_lowercase(line.toks)
         IN  IF starts_with(line, "c") THEN st
             ELSE IF starts_with(line, "p") THEN problem_line(st, toks)
             ELSE IF ~only_clause_chars(toks) \/ st.clauses_left = 0 THEN Rejected(st)
             ELSE clause_tokens(st, toks, 1)

\* Mutant of end_of_input: a clause left open is not pushed.
end_of_input_no_flush(st) ==
    IF st.clauses_left > 0 THEN Rejected(st) ELSE [st EXCEPT !.ret = "Some"]

\* parse after its loop.
end_of_input(st) ==
    LET last == IF st.clauses_left = 1
                THEN [st EXCEPT !.all_clauses = Append(@, st.current_clause),
                                !.clauses_left = @ - 1]
                ELSE st
    IN  IF last.clauses_left > 0 THEN Rejected(last)
        ELSE [last EXCEPT !.ret = "Some"]

(***************************************************************************)
(* unit_propagation.rs                                                     *)
(***************************************************************************)
\* Mutant of scan_clauses: no check of is_unsatisfiable.
RECURSIVE scan_clauses_no_conflict(_, _, _, _)
scan_clauses_no_conflict(cls, A, i, wl) ==
    IF i > Len(cls) THEN [conflict |-> FALSE, worklist |-> wl]
    ELSE LET u == get_unit(cls[i], A)
         IN  scan_clauses_no_conflict(cls, A, i + 1,
                                      IF u = None THEN wl ELSE Append(wl, u.value))

\* Mutant of scan_clauses: push_front for push_back.
RECURSIVE scan_clauses_lifo(_, _, _, _)
scan_clauses_lifo(cls, A, i, wl) ==
    IF i > Len(cls) THEN [conflict |-> FALSE, worklist |-> wl]
    ELSE IF is_unsatisfiable(cls[i], A) THEN [conflict |-> TRUE, worklist |-> wl]
    ELSE LET u == get_unit(cls[i], A)
         IN  scan_clauses_lifo(cls, A, i + 1,
                               IF u = None THEN wl ELSE <<u.value>> \o wl)

\* The `for cls in clauses` loop of propagate, from clause i on: whether it
\* returned false, and the worklist after the pushes.
RECURSIVE scan_clauses(_, _, _, _)
scan_clauses(cls, A, i, wl) ==
    IF i > Len(cls) THEN [conflict |-> FALSE, worklist |-> wl]
    ELSE IF is_unsatisfiable(cls[i], A) THEN [conflict |-> TRUE, worklist |-> wl]
    ELSE LET u == get_unit(cls[i], A)
         IN  scan_clauses(cls, A, i + 1,
                          IF u = None THEN wl ELSE Append(wl, u.value))

\* Mutant of propagate_iteration: on a conflict the newest entry is taken off
\* the trail.
propagate_iteration_undo(cls, A, wl) ==
    LET r == assume(A, Head(wl))
        s == scan_clauses(cls, r.assumptions, 1, Tail(wl))
        T == r.assumptions
    IN  IF ~r.ok \/ s.conflict
        THEN [conflict |-> TRUE, assumptions |-> SubSeq(T, 1, Len(T) - 1),
              worklist |-> Tail(wl)]
        ELSE [conflict |-> FALSE, assumptions |-> T, worklist |-> s.worklist]

\* One iteration of `while let Some(current_lit) = worklist.pop_front()`.
propagate_iteration(cls, A, wl) ==
    LET r == assume(A, Head(wl))
        s == scan_clauses(cls, r.assumptions, 1, Tail(wl))
    IN  IF ~r.ok
        THEN [conflict |-> TRUE, assumptions |-> r.assumptions, worklist |-> Tail(wl)]
        ELSE [conflict |-> s.conflict, assumptions |-> r.assumptions,
              worklist |-> s.worklist]

(***************************************************************************)
(* pure_literal_elimination.rs                                             *)
(***************************************************************************)
Never == [tag |-> "Never"]
Only(p) == [tag |-> "Only", value |-> p]
Both == [tag |-> "Both"]

\* Mutant of observe: the first polarity seen is kept.
observe_keep_first(seen, lit) ==
    IF seen = Never THEN Only(lit.polarity) ELSE seen

observe(seen, lit) ==
    IF seen = Never THEN Only(lit.polarity)
    ELSE IF seen.tag = "Only" /\ seen.value # lit.polarity THEN Both
    ELSE seen

\* Mutant of is_unresolved: every literal of an unsatisfied clause is observed.
is_unresolved_any(A, lit) == TRUE

\* We only care about unresolved literals.
is_unresolved(A, lit) == get_lit(A, lit) = Unknown

\* `for l in c.iter()`: var_info after the literals of c from j on.  A
\* variable with no entry in the BTreeMap is Never here: the second loop of
\* eliminate ignores both.
RECURSIVE observe_literals(_, _, _, _)
observe_literals(c, A, j, info) ==
    IF j > Len(c) THEN info
    ELSE observe_literals(c, A, j + 1,
            IF is_unresolved(A, c[j])
            THEN [info EXCEPT ![c[j].variable] = observe(@, c[j])]
            ELSE info)

\* `for c in clauses`
RECURSIVE observe_clauses(_, _, _, _)
observe_clauses(cls, A, i, info) ==
    IF i > Len(cls) THEN info
    ELSE observe_clauses(cls, A, i + 1,
            IF is_satisfied(cls[i], A) THEN info
            ELSE observe_literals(cls[i], A, 1, info))

\* Mutant of assume_pure: the pure literal is assumed with the other polarity.
RECURSIVE assume_pure_negated(_, _, _, _)
assume_pure_negated(info, v, A, added) ==
    IF v > NumVars THEN [panic |-> FALSE, assumptions |-> A, pure |-> added]
    ELSE IF info[v].tag = "Only"
    THEN LET l == Literal(v, ~info[v].value)
             r == assume(A, l)
         IN  IF ~r.ok THEN [panic |-> TRUE, assumptions |-> r.assumptions, pure |-> added]
             ELSE assume_pure_negated(info, v + 1, r.assumptions, Append(added, l))
    ELSE assume_pure_negated(info, v + 1, A, added)

\* `for (var, seen) in var_info`, in ascending variable order from v on:
\* whether the assert! fired, the trail, and the literals assumed.
RECURSIVE assume_pure(_, _, _, _)
assume_pure(info, v, A, added) ==
    IF v > NumVars THEN [panic |-> FALSE, assumptions |-> A, pure |-> added]
    ELSE IF info[v].tag = "Only"
    THEN LET l == Literal(v, info[v].value)
             r == assume(A, l)
         IN  IF ~r.ok THEN [panic |-> TRUE, assumptions |-> r.assumptions, pure |-> added]
             ELSE assume_pure(info, v + 1, r.assumptions, Append(added, l))
    ELSE assume_pure(info, v + 1, A, added)

eliminate(cls, A) ==
    assume_pure(observe_clauses(cls, A, 1, [v \in Variables |-> Never]), 1, A, <<>>)

(***************************************************************************)
(* dpll.rs                                                                 *)
(***************************************************************************)
\* The BTreeSet built by the two `for` loops at the head of satisfiable.
var_set(cls) ==
    UNION {{cls[i][j].variable : j \in 1..Len(cls[i])} : i \in 1..Len(cls)}

\* Mutant of get_next_variable: the first candidate, Unknown or not.
get_next_variable_first(candidates, A) ==
    IF candidates = {} THEN None ELSE Some(Literal(Min(candidates), TRUE))

\* Mutant of get_next_variable: the last Unknown candidate for the first.
get_next_variable_last(candidates, A) ==
    LET unknown == {v \in candidates : get_var(A, v) = Unknown}
    IN  IF unknown = {} THEN None
        ELSE Some(Literal(CHOOSE v \in unknown : \A w \in unknown : w <= v, TRUE))

\* Mutant of get_next_variable: only the first candidate is looked at.
get_next_variable_front(candidates, A) ==
    IF candidates # {} /\ get_var(A, Min(candidates)) = Unknown
    THEN Some(Literal(Min(candidates), TRUE))
    ELSE None

\* candidates.iter().find(Unknown): a BTreeSet iterates in ascending order.
get_next_variable(candidates, A) ==
    LET unknown == {v \in candidates : get_var(A, v) = Unknown}
    IN  IF unknown = {} THEN None ELSE Some(Literal(Min(unknown), TRUE))

\* Mutant of all_satisfied: any() for all().
all_satisfied_any(cls, A) == \E i \in 1..Len(cls) : is_satisfied(cls[i], A)

\* clauses.iter().all(|c| c.is_satisfied(&assumptions))
all_satisfied(cls, A) == \A i \in 1..Len(cls) : is_satisfied(cls[i], A)

\* clauses.iter().any(|c| c.is_unsatisfiable(&assumptions))
any_unsatisfiable(cls, A) == \E i \in 1..Len(cls) : is_unsatisfiable(cls[i], A)

(***************************************************************************)
(* The inputs of satisfiable.  A clause is built by Clause::add_literal;    *)
(* it may hold a literal and its negation.  The clauses enumerated hold no *)
(* literal twice.                                                          *)
(* Literals are numbered 1, -1, 2, -2, ...; the clauses enumerated hold    *)
(* their literals in ascending number, and the clause lists hold distinct  *)
(* clauses in ascending code.  A clause holding x and not-x is enumerated  *)
(* up to MaxTautologyLen literals.                                         *)
(***************************************************************************)
LitAt(k) == Literal((k + 1) \div 2, k % 2 = 1)

\* A clause is coded by the set of the numbers of its literals, as the bits
\* of an integer: bit k - 1 is literal number k.  Bits(c, 1) is that set in
\* ascending order.
RECURSIVE Bits(_, _)
Bits(c, k) ==
    IF c = 0 THEN <<>>
    ELSE IF c % 2 = 1 THEN <<k>> \o Bits(c \div 2, k + 1)
    ELSE Bits(c \div 2, k + 1)

\* Literals 2v-1 and 2v are x and not-x of variable v.
IsTautology(s) == \E i \in 1..Len(s) - 1 : s[i] % 2 = 1 /\ s[i + 1] = s[i] + 1

ClauseCodes ==
    {c \in 0..(2 ^ (2 * NumVars) - 1) :
        LET s == Bits(c, 1)
        IN  /\ Len(s) <= MaxClauseLen
            /\ IsTautology(s) => Len(s) <= MaxTautologyLen}

\* The sequences of distinct clause codes, ascending, of length <= n.
RECURSIVE CodeLists(_)
CodeLists(n) ==
    IF n = 0 THEN {<<>>}
    ELSE LET P == CodeLists(n - 1)
             Full == {l \in P : Len(l) = n - 1}
         IN  P \cup UNION {{Append(l, c) :
                              c \in {d \in ClauseCodes : l = <<>> \/ d > l[Len(l)]}} :
                           l \in Full}

ToClause(s) == [j \in 1..Len(s) |-> LitAt(s[j])]

\* The clause lists of at most n clauses.
Problems(n) == {[i \in 1..Len(l) |-> ToClause(Bits(l[i], 1))] : l \in CodeLists(n)}

(***************************************************************************)
(* State                                                                   *)
(***************************************************************************)
Store == [assumptions |-> assumptions, rollback_boundaries |-> rollback_boundaries]

\* A call of the client: the operation, its argument and return value (of
\* assume), the trail length at the call, and the store it is compared to:
\* the store at the call, or for rollback_inference the store at the matching
\* new_inference.
Called(op, lit, ret, before) ==
    [op |-> op, lit |-> lit, ret |-> ret, len |-> Len(assumptions), before |-> before]

NoCall == [op |-> "none", lit |-> Literal(1, TRUE), ret |-> TRUE, len |-> 0,
           before |-> [assumptions |-> <<>>, rollback_boundaries |-> <<>>]]

\* The locals of dimacs::parse before its loop.
ParseLocals ==
    [found_problem |-> FALSE, clauses_left |-> 0, current_clause |-> <<>>,
     all_clauses |-> <<>>, ret |-> "Running"]

\* The history of an input: the lines read, those of them that start with p,
\* whether one of these was malformed, the count the first problem line
\* declared, whether a clause line came before it, the clauses a 0 has
\* terminated, the integers read since the last 0, and whether the input was
\* read to its end.
NoInput ==
    [lines |-> 0, p_lines |-> 0, malformed |-> FALSE, declared |-> None,
     clause_before_p |-> FALSE, delivered |-> 0, trailing |-> <<>>,
     ended |-> FALSE]

\* Nothing parsed.
ParseInit ==
    /\ parse = ParseLocals
    /\ input = NoInput

\* No clause under construction, no conversion made and nothing parsed.
IoInit ==
    /\ clause = <<>>
    /\ dimacs = 0
    /\ parsed_lit = None
    /\ text = <<>>
    /\ ParseInit

\* AssumptionStore::new, and the locals of satisfiable before its loop.
StoreInit ==
    /\ assumptions = <<>>
    /\ rollback_boundaries = <<>>
    /\ result = "Running"
    /\ new_lit = Literal(1, TRUE)
    /\ worklist = <<>>
    /\ entry = [assumptions |-> <<>>, rollback_boundaries |-> <<>>]
    /\ guesses_true = 0
    /\ pure = <<>>
    /\ call = NoCall
    /\ checkpoints = <<>>

\* The four clauses of two literals over variables 1 and 2, in the order
\* 1 2 / 1 -2 / -1 2 / -1 -2.
AllTwoClauses ==
    << <<Literal(1, TRUE), Literal(2, TRUE)>>,
       <<Literal(1, TRUE), Literal(2, FALSE)>>,
       <<Literal(1, FALSE), Literal(2, TRUE)>>,
       <<Literal(1, FALSE), Literal(2, FALSE)>> >>

SolverInit ==
    /\ clauses \in Problems(MaxClauses) \cup {AllTwoClauses}
    /\ pc = "loop"
    /\ StoreInit
    /\ IoInit

\* The inputs of the liveness check.
FairInit ==
    /\ clauses \in Problems(MaxFairClauses)
    /\ pc = "loop"
    /\ StoreInit
    /\ IoInit

ClientInit ==
    /\ clauses = <<>>
    /\ pc = "api"
    /\ StoreInit
    /\ IoInit

Init == SolverInit \/ ClientInit

(***************************************************************************)
(* dpll.rs: satisfiable and make_guess                                     *)
(***************************************************************************)
history == <<call, checkpoints>>

\* make_guess up to the call of propagate: new_inference, and propagate's
\* worklist holding the guessed literal.
EnterGuess(lit) ==
    /\ entry' = Store
    /\ rollback_boundaries' = new_inference(assumptions, rollback_boundaries)
    /\ new_lit' = lit
    /\ worklist' = <<lit>>
    /\ pc' = "propagate"
    /\ UNCHANGED <<assumptions, result>>

Return(r) ==
    /\ pc' = "done"
    /\ result' = r
    /\ UNCHANGED <<assumptions, rollback_boundaries, new_lit, worklist, entry>>

\* The top of `loop` in satisfiable: the two checks, the choice of the next
\* variable and the entry into make_guess(next_var).
LoopTop ==
    /\ pc = "loop"
    /\ IF all_satisfied(clauses, assumptions) THEN Return("Some")
       ELSE IF any_unsatisfiable(clauses, assumptions) THEN Return("None")
       ELSE LET next_var == get_next_variable(var_set(clauses), assumptions)
            IN  IF next_var = None THEN Return("Some")
                ELSE EnterGuess(next_var.value)
    /\ UNCHANGED <<clauses, guesses_true, pure, history, io>>

\* One iteration of the while loop of propagate.
PropagateStep ==
    /\ pc = "propagate"
    /\ worklist # <<>>
    /\ LET r == propagate_iteration(clauses, assumptions, worklist)
       IN  /\ assumptions' = r.assumptions
           /\ worklist' = r.worklist
           /\ pc' = IF r.conflict THEN "conflict" ELSE "propagate"
    /\ UNCHANGED <<clauses, rollback_boundaries, result, new_lit, entry,
                   guesses_true, pure, history, io>>

\* propagate returned true: make_guess runs eliminate and returns true, and
\* satisfiable continues its loop.
GuessSucceeds ==
    /\ pc = "propagate"
    /\ worklist = <<>>
    /\ LET r == eliminate(clauses, assumptions)
       IN  /\ assumptions' = r.assumptions
           /\ pure' = r.pure
           /\ pc' = IF r.panic THEN "panic" ELSE "loop"
           /\ result' = IF r.panic THEN "PanicAssert" ELSE result
           /\ guesses_true' = IF r.panic THEN guesses_true ELSE guesses_true + 1
    /\ UNCHANGED <<clauses, rollback_boundaries, new_lit, worklist, entry, history, io>>

\* propagate returned false: make_guess rolls back and returns false.  After
\* the positive guess satisfiable goes on to the negative one; after the
\* negative guess it returns None.
GuessFails ==
    /\ pc = "conflict"
    /\ LET r == rollback_inference(assumptions, rollback_boundaries)
       IN  /\ assumptions' = r.assumptions
           /\ rollback_boundaries' = r.rollback_boundaries
           /\ pc' = IF r.panic THEN "panic"
                    ELSE IF new_lit.polarity THEN "try_negative" ELSE "done"
           /\ result' = IF r.panic THEN "PanicRollback"
                        ELSE IF new_lit.polarity THEN result ELSE "None"
    /\ UNCHANGED <<clauses, new_lit, worklist, entry, guesses_true, pure, history, io>>

\* make_guess(next_var.negate())
TryNegative ==
    /\ pc = "try_negative"
    /\ EnterGuess(negate(new_lit))
    /\ UNCHANGED <<clauses, guesses_true, pure, history, io>>

SolverNext == LoopTop \/ PropagateStep \/ GuessSucceeds \/ GuessFails \/ TryNegative

(***************************************************************************)
(* A client of the store: any sequence of assume, new_inference and        *)
(* rollback_inference, the latter only with a boundary to pop.             *)
(***************************************************************************)
solver == <<clauses, result, new_lit, worklist, entry, guesses_true, pure>>

ClientAssume(lit) ==
    /\ pc = "api"
    /\ Len(assumptions) < MaxTrail
    /\ LET r == assume(assumptions, lit)
       IN  /\ assumptions' = r.assumptions
           /\ call' = Called("assume", lit, r.ok, Store)
    /\ UNCHANGED <<rollback_boundaries, checkpoints, pc, solver, io>>

ClientNewInference ==
    /\ pc = "api"
    /\ Len(rollback_boundaries) < MaxBoundaries
    /\ rollback_boundaries' = new_inference(assumptions, rollback_boundaries)
    /\ checkpoints' = Append(checkpoints, Store)
    /\ call' = Called("new_inference", NoCall.lit, TRUE, Store)
    /\ UNCHANGED <<assumptions, pc, solver, io>>

ClientRollback ==
    /\ pc = "api"
    /\ rollback_boundaries # <<>>
    /\ LET r == rollback_inference(assumptions, rollback_boundaries)
       IN  /\ assumptions' = r.assumptions
           /\ rollback_boundaries' = r.rollback_boundaries
    /\ checkpoints' = SubSeq(checkpoints, 1, Len(checkpoints) - 1)
    /\ call' = Called("rollback_inference", NoCall.lit, TRUE,
                    checkpoints[Len(checkpoints)])
    /\ UNCHANGED <<pc, solver, io>>

ClientNext ==
    \/ \E lit \in Literals : ClientAssume(lit)
    \/ ClientNewInference
    \/ ClientRollback

Next == SolverNext \/ ClientNext

Spec == Init /\ [][Next]_vars

(***************************************************************************)
(* A client of Clause: a clause built by any sequence of add_literal, and   *)
(* its status read against a trail that assume has built.                  *)
(***************************************************************************)
\* The trails of at most n entries that calls of assume build from the empty
\* store.
RECURSIVE Trails(_)
Trails(n) ==
    IF n = 0 THEN {<<>>}
    ELSE LET P == Trails(n - 1)
             Full == {A \in P : Len(A) = n - 1}
         IN  P \cup UNION {{assume(A, l).assumptions :
                              l \in {m \in Literals : assume(A, m).ok}} :
                           A \in Full}

ClauseInit ==
    /\ pc = "clause"
    /\ IoInit
    /\ assumptions \in Trails(MaxTrail)
    /\ clauses = <<>>
    /\ rollback_boundaries = <<>>
    /\ result = "Running"
    /\ new_lit = Literal(1, TRUE)
    /\ worklist = <<>>
    /\ entry = [assumptions |-> <<>>, rollback_boundaries |-> <<>>]
    /\ guesses_true = 0
    /\ pure = <<>>
    /\ call = NoCall
    /\ checkpoints = <<>>

\* clause.add_literal(lit); `call` keeps the literal and the clause before.
AddLiteral(lit) ==
    /\ pc = "clause"
    /\ Len(clause) < MaxClauseLen
    /\ clause' = add_literal(clause, lit)
    /\ call' = Called("add_literal", lit, TRUE, clause)
    /\ UNCHANGED <<assumptions, rollback_boundaries, checkpoints, pc, solver,
                   dimacs, parsed_lit, text, parse, input>>

ClauseNext == \E lit \in Literals : AddLiteral(lit)

ClauseSpec == ClauseInit /\ [][ClauseNext]_vars

(***************************************************************************)
(* A client of the inference passes: one call of propagate (with any seed)  *)
(* or of eliminate on any clause list and store, as the unit tests of       *)
(* unit_propagation.rs make.  `entry` is the store at the call.  propagate  *)
(* has returned true at pc = "propagate" with an empty worklist and false   *)
(* at pc = "conflict".                                                      *)
(***************************************************************************)
PassInit ==
    /\ clauses \in Problems(MaxPassClauses)
    /\ assumptions \in Trails(MaxPreTrail)
    /\ \/ \E seed \in Literals :
              /\ pc = "propagate"
              /\ new_lit = seed
              /\ worklist = <<seed>>
       \/ /\ pc = "eliminate"
          /\ new_lit = Literal(1, TRUE)
          /\ worklist = <<>>
    /\ rollback_boundaries = <<>>
    /\ entry = Store
    /\ result = "Running"
    /\ guesses_true = 0
    /\ pure = <<>>
    /\ call = NoCall
    /\ checkpoints = <<>>
    /\ IoInit

\* eliminate(clauses, assumptions)
EliminateCall ==
    /\ pc = "eliminate"
    /\ LET r == eliminate(clauses, assumptions)
       IN  /\ assumptions' = r.assumptions
           /\ pure' = r.pure
           /\ pc' = IF r.panic THEN "panic" ELSE "eliminated"
           /\ result' = IF r.panic THEN "PanicAssert" ELSE result
    /\ UNCHANGED <<clauses, rollback_boundaries, new_lit, worklist, entry,
                   guesses_true, history, io>>

PassNext == PropagateStep \/ EliminateCall

PassSpec == PassInit /\ [][PassNext]_vars

(***************************************************************************)
(* A client of Literal: from_dimacs of an i32, and to_dimacs of the         *)
(* literal it returned, as the unit tests of literal.rs and dimacs::print   *)
(* make.                                                                   *)
(***************************************************************************)
PowersOfTen == {1000, 1000000, 1000000000}

DimacsInts ==
    (-MaxDimacs..MaxDimacs)
    \cup {I32Min, I32Min + 1, I32Min + 2, I32Max - 1, I32Max}
    \cup {s * (q + e) : s \in {-1, 1}, q \in PowersOfTen, e \in {-1, 0, 1}}

LiteralInit ==
    /\ pc = "from_dimacs"
    /\ dimacs \in DimacsInts
    /\ parsed_lit = None
    /\ text = <<>>
    /\ ParseInit
    /\ clause = <<>>
    /\ clauses = <<>>
    /\ StoreInit

\* Literal::from_dimacs(dimacs)
FromDimacs ==
    /\ pc = "from_dimacs"
    /\ parsed_lit' = from_dimacs(dimacs)
    /\ pc' = "to_dimacs"
    /\ UNCHANGED <<assumptions, rollback_boundaries, history, solver, clause,
                   dimacs, text, parse, input>>

\* l.to_dimacs() of the literal l that from_dimacs returned
ToDimacs ==
    /\ pc = "to_dimacs"
    /\ parsed_lit # None
    /\ text' = to_dimacs(parsed_lit.value)
    /\ pc' = "rendered"
    /\ UNCHANGED <<assumptions, rollback_boundaries, history, solver, clause,
                   dimacs, parsed_lit, parse, input>>

LiteralNext == FromDimacs \/ ToDimacs

LiteralSpec == LiteralInit /\ [][LiteralNext]_vars

(***************************************************************************)
(* dimacs::parse on an input read line by line, as main.rs calls it on      *)
(* standard input.  A line is read while parse has not returned; the input  *)
(* ends after any line.                                                    *)
(***************************************************************************)
\* The sequences over S of length <= n.
RECURSIVE SeqsUpTo(_, _)
SeqsUpTo(S, n) ==
    IF n = 0 THEN {<<>>}
    ELSE LET P == SeqsUpTo(S, n - 1)
         IN  P \cup {Append(q, x) : q \in {r \in P : Len(r) = n - 1}, x \in S}

\* Tokens of a clause line: the numerals of the literals and of 0, and a
\* lone sign, which is made of the characters a clause line may hold and is
\* no integer.
ClauseTokens ==
    {Digits(0), <<"-">>}
    \cup {to_dimacs(Literal(v, b)) : v \in 1..MaxInputVar, b \in BOOLEAN}

ClauseLines == {Line(FALSE, toks) : toks \in SeqsUpTo(ClauseTokens, MaxLineToks)}

\* Lines that start with p: the head, then up to three more fields and a
\* fifth token.
ProblemHeads == {<<"p">>, <<"P">>, <<"p", "x">>}
ProblemFormats == {<<"c", "n", "f">>, <<"C", "N", "F">>, <<"x">>}
ProblemNVars == {<<"2">>, <<"x">>}
ProblemCounts == {Digits(n) : n \in 0..MaxDeclared} \cup {<<"-", "1">>, <<"x">>}

ProblemLines ==
    LET full == {<<h, f, v, n>> : h \in ProblemHeads, f \in ProblemFormats,
                                  v \in ProblemNVars, n \in ProblemCounts}
    IN  {Line(FALSE, SubSeq(l, 1, k)) : l \in full, k \in 1..4}
        \cup {Line(FALSE, Append(l, Digits(0))) : l \in full}

\* Lines that start with c, whatever follows.
CommentLines ==
    {Line(FALSE, toks) : toks \in {<< <<"c">> >>, << <<"C">>, <<"x">> >>,
                                    << <<"c", "n", "f">>, <<"1">> >>,
                                    << <<"c">>, <<"p">>, <<"0">> >>}}

\* Lines that whitespace leads.
IndentedLines ==
    {Line(TRUE, toks) : toks \in {<< <<"c">> >>, << <<"1">>, <<"0">> >>,
                                   << <<"p">>, <<"c", "n", "f">>, <<"2">>, <<"1">> >>}}

Lines == ClauseLines \cup ProblemLines \cup CommentLines \cup IndentedLines \cup {ReadError}

\* A line of the form `p cnf <nvars> <nclauses>`, in either case; <nvars> is
\* not read.
WellFormedProblemLine(line) ==
    LET toks == make_ascii_lowercase(line.toks)
    IN  /\ Len(toks) = 4
        /\ toks[1] = <<"p">>
        /\ toks[2] = <<"c", "n", "f">>
        /\ parse_i32(toks[4]) # None

\* The integers of the tokens of a clause line from token i on, read after
\* `delivered` terminated clauses and the integers `trailing` of an open one.
RECURSIVE ReadIntegers(_, _, _, _)
ReadIntegers(toks, i, delivered, trailing) ==
    IF i > Len(toks) THEN [delivered |-> delivered, trailing |-> trailing]
    ELSE LET k == parse_i32(toks[i])
         IN  IF k = None THEN ReadIntegers(toks, i + 1, delivered, trailing)
             ELSE IF k.value = 0 THEN ReadIntegers(toks, i + 1, delivered + 1, <<>>)
             ELSE ReadIntegers(toks, i + 1, delivered, Append(trailing, k.value))

\* The history of the input after `line`.
Read(line) ==
    LET is_p == ~line.err /\ starts_with(line, "p")
        is_c == ~line.err /\ starts_with(line, "c")
        is_clause == ~line.err /\ ~is_p /\ ~is_c /\ line.toks # <<>>
        ints == IF is_clause
                THEN ReadIntegers(line.toks, 1, input.delivered, input.trailing)
                ELSE [delivered |-> input.delivered, trailing |-> input.trailing]
    IN  [lines |-> input.lines + 1,
         p_lines |-> input.p_lines + (IF is_p THEN 1 ELSE 0),
         malformed |-> input.malformed \/ (is_p /\ ~WellFormedProblemLine(line)),
         declared |-> IF is_p /\ input.p_lines = 0 /\ WellFormedProblemLine(line)
                      THEN parse_i32(line.toks[4])
                      ELSE input.declared,
         clause_before_p |-> input.clause_before_p \/ (is_clause /\ input.p_lines = 0),
         delivered |-> ints.delivered,
         trailing |-> ints.trailing,
         ended |-> FALSE]

ParserInit ==
    /\ pc = "parse"
    /\ clauses = <<>>
    /\ StoreInit
    /\ IoInit

\* One turn of `for res in buf.lines()`; a `return None` in it ends parse.
ParseLine(line) ==
    /\ pc = "parse"
    /\ input.lines < MaxLines
    /\ parse' = parse_line(parse, line)
    /\ input' = Read(line)
    /\ pc' = IF parse'.ret = "None" THEN "parsed" ELSE "parse"
    /\ UNCHANGED <<assumptions, rollback_boundaries, history, solver, clause,
                   dimacs, parsed_lit, text>>

\* buf.lines() is exhausted: the code after the loop.
EndOfInput ==
    /\ pc = "parse"
    /\ parse' = end_of_input(parse)
    /\ input' = [input EXCEPT !.ended = TRUE]
    /\ pc' = "parsed"
    /\ UNCHANGED <<assumptions, rollback_boundaries, history, solver, clause,
                   dimacs, parsed_lit, text>>

ParserNext == (\E line \in Lines : ParseLine(line)) \/ EndOfInput

ParserSpec == ParserInit /\ [][ParserNext]_vars

\* The client alone.
StoreSpec == ClientInit /\ [][ClientNext]_vars

\* satisfiable alone, run to its end: it is sequential code, which takes its
\* next step whenever it has one.
FairSpec == FairInit /\ [][SolverNext]_vars /\ WF_vars(SolverNext)

(***************************************************************************)
(* Properties                                                              *)
(***************************************************************************)
\* Trail T binds variable v to polarity p: T holds the literal (v, p).
Binds(T, v, p) == \E i \in 1..Len(T) : T[i] = Literal(v, p)

\* Some literal of clause c is bound by T to its polarity.
SatisfiedBy(c, T) == \E j \in 1..Len(c) : Binds(T, c[j].variable, c[j].polarity)

\* Some total assignment of the variables satisfies every clause of cls.
BruteForceSat(cls) ==
    \E f \in [Variables -> BOOLEAN] :
        \A i \in 1..Len(cls) : \E j \in 1..Len(cls[i]) :
            f[cls[i][j].variable] = cls[i][j].polarity

HasDuplicate(T) ==
    \E i, j \in 1..Len(T) : i < j /\ T[i].variable = T[j].variable

\* C1: solution soundness.  When satisfiable returns Some(T), every clause of
\* the input holds a literal whose variable T binds to that literal's
\* polarity; so an input holding an empty clause never yields Some.
C1_SolutionSound ==
    result = "Some" => \A i \in 1..Len(clauses) : SatisfiedBy(clauses[i], assumptions)

\* satisfiable returned Some after two guesses on an input of three clauses.
C1_Witness ==
    /\ result = "Some"
    /\ Len(clauses) >= 3
    /\ guesses_true >= 2

\* C2: UNSAT soundness.  When satisfiable returns None, no total assignment
\* of the variables satisfies all clauses.
C2_UnsatSound ==
    result = "None" => ~BruteForceSat(clauses)

\* C3: trail consistency.  In every reachable state of the store, under the
\* solver and under any client, no two trail entries have the same variable
\* with opposite polarities.
C3_TrailConsistent ==
    \A i, j \in 1..Len(assumptions) :
        assumptions[i].variable = assumptions[j].variable
            => assumptions[i].polarity = assumptions[j].polarity

\* The trail holds two entries on one variable while a conflicting assume
\* has just been refused.
C3_Witness ==
    /\ HasDuplicate(assumptions)
    /\ call.op = "assume"
    /\ ~call.ret

\* The guess that has just succeeded committed a variable that was Unknown
\* when make_guess was called.
GuessCommitsUnknown ==
    (pc = "propagate" /\ pc' = "loop") =>
        /\ get_var(entry.assumptions, new_lit.variable) = Unknown
        /\ get_var(assumptions', new_lit.variable) = Assume(new_lit.polarity)

\* C4: termination.  satisfiable eventually returns Some or None (so every
\* propagate drains its worklist or hits a conflict, although unit literals
\* already assumed are enqueued again), and every successful guess binds a
\* variable that was Unknown before it.
C4_Terminates ==
    /\ <>(pc = "done")
    /\ [][GuessCommitsUnknown]_vars

\* satisfiable has returned, and a propagate assumed a literal again that was
\* already on the trail.
C4_Witness ==
    /\ pc = "done"
    /\ HasDuplicate(assumptions)

\* C5: rollback round trip.  After new_inference, any calls of assume and any
\* nested, matched new_inference / rollback_inference pairs, the matching
\* rollback_inference leaves the assumption list and the boundary stack, and
\* so get_var of every variable, as they were just before that new_inference.
C5_RollbackRoundTrip ==
    call.op = "rollback_inference" =>
        /\ assumptions = call.before.assumptions
        /\ rollback_boundaries = call.before.rollback_boundaries
        /\ \A v \in Variables :
              get_var(assumptions, v) = get_var(call.before.assumptions, v)

\* A rollback of an inner checkpoint has dropped entries from the trail and
\* left an outer checkpoint and its entries in place.
C5_Witness ==
    /\ call.op = "rollback_inference"
    /\ call.len > Len(assumptions)
    /\ assumptions # <<>>
    /\ rollback_boundaries # <<>>

\* C6: assume(l) returns false exactly when the trail binds l's variable to
\* the opposite polarity, and then leaves the assumption list and the
\* boundary stack unchanged; otherwise it returns true and l is the new last
\* entry of the trail.
C6_AssumeContract ==
    call.op = "assume" =>
        /\ call.ret = ~Binds(call.before.assumptions, call.lit.variable,
                             ~call.lit.polarity)
        /\ rollback_boundaries = call.before.rollback_boundaries
        /\ assumptions = IF call.ret THEN Append(call.before.assumptions, call.lit)
                         ELSE call.before.assumptions

\* assume has just returned false, with a checkpoint open.
C6_Witness ==
    /\ call.op = "assume"
    /\ ~call.ret
    /\ rollback_boundaries # <<>>

\* C7: a failed guess is fully undone.  When make_guess returns false the
\* assumption list and the boundary stack are what they were when it was
\* called, so the negative guess starts from the state the positive one did.
C7_FailedGuessUndone ==
    /\ [](pc = "try_negative" => Store = entry)
    /\ [][pc = "conflict" => /\ assumptions' = entry.assumptions
                             /\ rollback_boundaries' = entry.rollback_boundaries]_vars

\* A positive guess made below an earlier successful guess has failed and
\* been rolled back.
C7_Witness ==
    /\ pc = "try_negative"
    /\ guesses_true >= 1
    /\ assumptions # <<>>

\* C8: checkpoint accounting.  At the top of the loop of satisfiable the
\* boundary stack has one entry per make_guess that returned true: a
\* successful guess has pushed exactly one boundary on the stack it found, a
\* failed guess leaves the stack it found.
C8_CheckpointAccounting ==
    /\ pc = "loop" =>
        /\ Len(rollback_boundaries) = guesses_true
        /\ guesses_true > 0 =>
              rollback_boundaries =
                  Append(entry.rollback_boundaries, Len(entry.assumptions))
    /\ pc = "try_negative" => rollback_boundaries = entry.rollback_boundaries

\* At the top of the loop after two successful guesses, the last of them a
\* negative guess, made after the positive one failed.
C8_Witness ==
    /\ pc = "loop"
    /\ guesses_true >= 2
    /\ ~new_lit.polarity

\* C9: in satisfiable, rollback_inference is called only right after a
\* propagate that returned false, in the make_guess whose new_inference
\* pushed the top boundary; its panic is unreachable.  A boundary leaves the
\* stack only in the step that follows a failed propagate, and then it is the
\* boundary pushed when the running make_guess was called.
C9_RollbackMatched ==
    /\ [](pc = "conflict" =>
            rollback_boundaries =
                Append(entry.rollback_boundaries, Len(entry.assumptions)))
    /\ [](result # "PanicRollback")
    /\ [][(pc # "api" /\ Len(rollback_boundaries') < Len(rollback_boundaries))
              => pc = "conflict"]_vars

\* satisfiable returned None after both guesses failed and were rolled back.
C9_Witness ==
    /\ result = "None"
    /\ ~any_unsatisfiable(clauses, assumptions)

\* C10: pure literal elimination never conflicts.  After a propagate that
\* returned true, no assume of eliminate returns false: its assert! never
\* fires.
C10_EliminateNoConflict ==
    result # "PanicAssert"

\* eliminate has assumed a pure literal after a propagate that returned true.
C10_Witness ==
    /\ pc = "loop"
    /\ pure # <<>>

\* The positions of clause c whose literal is Unknown under trail A.
UnknownAt(c, A) == {i \in 1..Len(c) : get_lit(A, c[i]) = Unknown}

\* A clause holding a literal and its negation.
Tautological(c) == \E i, j \in 1..Len(c) : c[i] = negate(c[j])

\* C11: under every trail assume builds, no clause that add_literal builds
\* (the empty clause and the clauses holding x and not-x among them) is both
\* satisfied and unsatisfiable, and the empty clause is unsatisfiable and not
\* satisfied.
C11_StatusExclusive ==
    /\ ~(is_satisfied(clause, assumptions) /\ is_unsatisfiable(clause, assumptions))
    /\ is_unsatisfiable(<<>>, assumptions)
    /\ ~is_satisfied(<<>>, assumptions)

\* A clause holding x and not-x and a third literal, read under a trail that
\* binds all its variables.
C11_Witness ==
    /\ pc = "clause"
    /\ Len(clause) = MaxClauseLen
    /\ Tautological(clause)
    /\ UnknownAt(clause, assumptions) = {}

\* C12: get_unit returns Some(l) only for a clause that is neither satisfied
\* nor unsatisfiable and has exactly one Unknown position, which holds l; it
\* returns None for a satisfied clause, for an all-false or empty clause, and
\* for a clause with two or more Unknown positions.  A clause with no literal
\* Assume(true) and exactly one Unknown position does get Some.
C12_GetUnit ==
    LET u == get_unit(clause, assumptions)
        unknown == UnknownAt(clause, assumptions)
    IN  /\ u # None =>
              /\ ~is_satisfied(clause, assumptions)
              /\ ~is_unsatisfiable(clause, assumptions)
              /\ Cardinality(unknown) = 1
              /\ \A i \in unknown : u.value = clause[i]
        /\ is_satisfied(clause, assumptions) => u = None
        /\ is_unsatisfiable(clause, assumptions) => u = None
        /\ Cardinality(unknown) >= 2 => u = None
        /\ (~is_satisfied(clause, assumptions) /\ Cardinality(unknown) = 1) => u # None

\* A clause of two false literals and an unknown one, which is its unit.
C12_Witness ==
    /\ pc = "clause"
    /\ Len(clause) = MaxClauseLen
    /\ Cardinality(UnknownAt(clause, assumptions)) = 1
    /\ get_unit(clause, assumptions) # None
    /\ \E i \in 1..Len(clause) : get_lit(assumptions, clause[i]) = Assume(FALSE)

IsPrefix(s, t) == Len(s) <= Len(t) /\ SubSeq(t, 1, Len(s)) = s

\* C13: whenever propagate returns true, under the resulting trail the seed
\* literal is Assume(true), no clause is unsatisfiable and get_unit is None
\* for every clause.
C13_PropagateFixpoint ==
    (pc = "propagate" /\ worklist = <<>>) =>
        /\ get_lit(assumptions, new_lit) = Assume(TRUE)
        /\ \A i \in 1..Len(clauses) :
              /\ ~is_unsatisfiable(clauses[i], assumptions)
              /\ get_unit(clauses[i], assumptions) = None

\* propagate has returned true after assuming the seed and two units, one of
\* a clause the trail before the call had already reduced.
C13_Witness ==
    /\ pc = "propagate"
    /\ worklist = <<>>
    /\ entry.assumptions # <<>>
    /\ Len(assumptions) >= Len(entry.assumptions) + 3
    /\ \E i \in 1..Len(clauses) : get_unit(clauses[i], entry.assumptions) # None

\* C14: during a call of propagate and at its return, true or false, the
\* trail of before the call is a prefix of the trail and the boundary stack
\* is the one of before the call; every iteration only appends, and the
\* iteration that finds the conflict leaves the literal it assumed on the
\* trail.
C14_PropagateAppends ==
    /\ [](pc \in {"propagate", "conflict"} =>
              /\ IsPrefix(entry.assumptions, assumptions)
              /\ rollback_boundaries = entry.rollback_boundaries)
    /\ [][pc = "propagate" =>
              /\ IsPrefix(assumptions, assumptions')
              /\ rollback_boundaries' = rollback_boundaries
              /\ (pc' = "conflict" /\ assume(assumptions, Head(worklist)).ok) =>
                     assumptions' = Append(assumptions, Head(worklist))]_vars

\* propagate has returned false with the seed and a unit on the trail, after
\* the entries of before the call.
C14_Witness ==
    /\ pc = "conflict"
    /\ entry.assumptions # <<>>
    /\ Len(assumptions) >= Len(entry.assumptions) + 2
    /\ IsPrefix(entry.assumptions, assumptions)

\* The literals a scan of the clause list discovers under trail A, in
\* clause-list order.
Discovered(cls, A) ==
    LET units == [i \in 1..Len(cls) |-> get_unit(cls[i], A)]
        hits == SelectSeq(units, LAMBDA u : u # None)
    IN  [k \in 1..Len(hits) |-> hits[k].value]

\* C15: until an entry is appended the worklist holds the seed alone, so the
\* seed is the first literal assumed; every iteration assumes the oldest
\* literal of the worklist, and the literals its scan discovers go behind the
\* ones discovered before, in clause-list order.
C15_PropagateOrder ==
    /\ []((pc = "propagate" /\ assumptions = entry.assumptions) =>
              worklist = <<new_lit>>)
    /\ [][(pc = "propagate" /\ worklist # <<>>) =>
              /\ assumptions' # assumptions =>
                     assumptions' = Append(assumptions, Head(worklist))
              /\ pc' = "propagate" =>
                     worklist' = Tail(worklist) \o Discovered(clauses, assumptions')]_vars

\* A scan has discovered two literals while an older one was still waiting,
\* and the older one has since been assumed.
C15_Witness ==
    /\ pc \in {"propagate", "conflict"}
    /\ Len(assumptions) >= Len(entry.assumptions) + 2
    /\ Len(worklist) >= 2
    /\ worklist[1] # worklist[2]
    /\ Len(Discovered(clauses, assumptions)) >= 2

\* The polarities of the Unknown occurrences of variable v in the clauses of
\* cls that are not satisfied under trail A.
Occurrences(cls, A, v) ==
    {cls[i][j].polarity :
        <<i, j>> \in {<<i, j>> \in (1..Len(cls)) \X (1..MaxClauseLen) :
                        /\ j <= Len(cls[i])
                        /\ ~is_satisfied(cls[i], A)
                        /\ cls[i][j].variable = v
                        /\ get_lit(A, cls[i][j]) = Unknown}}

PureVariables(cls, A) == {v \in Variables : Cardinality(Occurrences(cls, A, v)) = 1}

\* The pure literals in ascending variable order, once each.
PureLiterals(cls, A) ==
    LET P == PureVariables(cls, A)
        nth(k) == CHOOSE v \in P : Cardinality({w \in P : w < v}) = k - 1
    IN  [k \in 1..Cardinality(P) |->
            Literal(nth(k), CHOOSE p \in Occurrences(cls, A, nth(k)) : TRUE)]

\* C16: eliminate does not fail, and after it the trail is the trail of
\* before the call followed, in ascending variable order and once each, by
\* Literal(v, p) for exactly the variables v that have an Unknown occurrence
\* in a not-satisfied clause and whose such occurrences all have polarity p.
C16_EliminateExact ==
    /\ pc = "eliminated" =>
           assumptions = entry.assumptions \o PureLiterals(clauses, entry.assumptions)
    /\ pc # "panic"

\* eliminate has assumed, after the entries of before the call, the negation
\* of a literal of a satisfied clause; another variable occurs in both
\* polarities and is left alone.
C16_Witness ==
    /\ pc = "eliminated"
    /\ entry.assumptions # <<>>
    /\ Len(assumptions) = Len(entry.assumptions) + 1
    /\ \E v \in Variables : Cardinality(Occurrences(clauses, entry.assumptions, v)) = 2
    /\ \E i \in 1..Len(clauses) :
          /\ is_satisfied(clauses[i], entry.assumptions)
          /\ \E j \in 1..Len(clauses[i]), k \in 1..Len(pure) :
                pure[k] = negate(clauses[i][j])

\* C17: on the four clauses of two literals over two variables no guess
\* succeeds: the guess of 1 conflicts during propagation, after a unit was
\* assumed, and is rolled back to the empty trail; the guess of not-1 conflicts
\* likewise, and satisfiable returns None.
C17_AllTwoClausesUnsat ==
    clauses = AllTwoClauses =>
        /\ guesses_true = 0
        /\ pc \in {"loop", "propagate", "conflict", "try_negative", "done"}
        /\ pc \in {"propagate", "conflict"} => new_lit.variable = 1
        /\ pc = "conflict" =>
               /\ assumptions[1] = new_lit
               /\ Len(assumptions) = 2
               /\ rollback_boundaries = <<0>>
        /\ pc = "try_negative" =>
               /\ new_lit = Literal(1, TRUE)
               /\ assumptions = <<>>
               /\ rollback_boundaries = <<>>
        /\ pc = "done" =>
               /\ result = "None"
               /\ new_lit = Literal(1, FALSE)
               /\ assumptions = <<>>
               /\ rollback_boundaries = <<>>

\* satisfiable has returned on the four clauses.
C17_Witness ==
    /\ clauses = AllTwoClauses
    /\ pc = "done"
    /\ result = "None"

\* C18: add_literal of a literal the clause already holds, at any position,
\* leaves the clause as it was, and no clause holds two equal literals.
C18_AddLiteralIdempotent ==
    /\ (/\ call.op = "add_literal"
        /\ \E i \in 1..Len(call.before) : call.before[i] = call.lit) =>
           clause = call.before
    /\ \A i, j \in 1..Len(clause) : i # j => clause[i] # clause[j]

\* C19: for every i32 k other than 0 and i32::MIN, from_dimacs(k) is Some(l)
\* with variable |k| and polarity k > 0, and l.to_dimacs() is the decimal
\* numeral of k: it reads back as k, and it has no "+" and no leading zero;
\* from_dimacs(0) is None.
C19_DimacsRoundTrip ==
    /\ (pc \in {"to_dimacs", "rendered"} /\ dimacs # 0 /\ dimacs # I32Min) =>
           parsed_lit = Some(Literal(IF dimacs < 0 THEN -dimacs ELSE dimacs, dimacs > 0))
    /\ (pc = "to_dimacs" /\ dimacs = 0) => parsed_lit = None
    /\ pc = "rendered" =>
           /\ parse_i32(text) = Some(dimacs)
           /\ text[1] # "+"
           /\ text[IF text[1] = "-" THEN 2 ELSE 1] # "0"

\* The round trip made on the smallest integer of the range.
C19_Witness ==
    /\ pc = "rendered"
    /\ dimacs = -I32Max
    /\ Len(text) = 11

\* C20: parse returns None on every input that holds more than one line that
\* starts with p or a malformed one, and on every input that holds none.
C20_ProblemLineOnce ==
    /\ (input.p_lines > 1 \/ input.malformed) => parse.ret = "None"
    /\ (pc = "parsed" /\ input.p_lines = 0) => parse.ret = "None"

\* The literals of clause c as DIMACS integers.
DimacsOf(c) ==
    {IF c[i].polarity THEN c[i].variable ELSE -c[i].variable : i \in 1..Len(c)}

\* The declared clauses the read input has not terminated with a 0.
Undelivered == input.declared.value - input.delivered

\* C21: when the input ends after the literals of a clause with no 0 behind
\* them and one declared clause is undelivered, parse returns Some and the
\* last clause of the result holds exactly those literals; when it ends with
\* two or more declared clauses undelivered, parse returns None.
C21_TrailingClause ==
    (input.ended /\ input.declared # None) =>
        /\ (input.trailing # <<>> /\ Undelivered = 1) =>
               /\ parse.ret = "Some"
               /\ Len(parse.all_clauses) = input.delivered + 1
               /\ DimacsOf(parse.all_clauses[Len(parse.all_clauses)])
                      = {input.trailing[i] : i \in 1..Len(input.trailing)}
        /\ Undelivered >= 2 => parse.ret = "None"

\* The input ended after a terminated clause and two literals of a second,
\* the last one declared.
C21_Witness ==
    /\ input.ended
    /\ input.declared = Some(2)
    /\ input.delivered = 1
    /\ Len(input.trailing) = 2
    /\ input.trailing[1] # input.trailing[2]
    /\ parse.ret = "Some"

\* C28: whenever parse returns Some, the clauses returned are as many as the
\* problem line declared; an input that terminates more clauses than were
\* declared is rejected, and so is an input with a clause line before the
\* problem line.
C28_DeclaredCount ==
    /\ parse.ret = "Some" =>
           /\ input.declared # None
           /\ Len(parse.all_clauses) = input.declared.value
    /\ (input.declared # None /\ input.delivered > input.declared.value) =>
           parse.ret # "Some"
    /\ input.clause_before_p => parse.ret = "None"

\* The variables of the formula with no entry on the trail.
UnboundVariables ==
    {v \in Variables :
        /\ \E i \in 1..Len(clauses) : \E j \in 1..Len(clauses[i]) :
               clauses[i][j].variable = v
        /\ \A k \in 1..Len(assumptions) : assumptions[k].variable # v}

\* C22: the guess made at the top of the loop is the positive literal of the
\* smallest variable of the formula that is Unknown under the trail; a
\* negative literal is guessed only after the guess of its positive literal
\* failed, and from the store that guess was made from; satisfiable returns
\* None only at the top of the loop with a clause unsatisfiable, or when the
\* negative guess failed.
C22_DecisionDiscipline ==
    /\ [](pc = "try_negative" => (new_lit.polarity /\ Store = entry))
    /\ [][/\ (pc = "loop" /\ pc' = "propagate") =>
               /\ UnboundVariables # {}
               /\ new_lit' = Literal(Min(UnboundVariables), TRUE)
          /\ (pc # "propagate" /\ pc' = "propagate" /\ ~new_lit'.polarity) =>
               /\ pc = "try_negative"
               /\ new_lit' = negate(new_lit)
               /\ entry' = entry
          /\ (result # "None" /\ result' = "None") =>
               \/ pc = "loop" /\ any_unsatisfiable(clauses, assumptions)
               \/ /\ pc = "conflict"
                  /\ ~new_lit.polarity
                  /\ assumptions' = entry.assumptions]_vars

\* The negative guess on variable 2 is under way after a guess that
\* succeeded and bound variable 1.
C22_Witness ==
    /\ pc = "propagate"
    /\ new_lit = Literal(2, FALSE)
    /\ worklist = <<new_lit>>
    /\ guesses_true >= 1
    /\ entry.assumptions # <<>>

\* C23: after any sequence of assume, new_inference and rollback_inference
\* (the latter with a boundary to pop) the boundary stack does not decrease
\* from bottom to top and no entry of it exceeds the length of the trail.
C23_BoundariesWellFormed ==
    \A i \in 1..Len(rollback_boundaries) :
        /\ rollback_boundaries[i] <= Len(assumptions)
        /\ i < Len(rollback_boundaries) =>
               rollback_boundaries[i] <= rollback_boundaries[i + 1]

\* A rollback has truncated the trail to the upper of two distinct
\* boundaries and left the lower one, below the length of the trail.
C23_Witness ==
    /\ pc = "api"
    /\ call.op = "rollback_inference"
    /\ call.len > Len(assumptions)
    /\ Len(rollback_boundaries) = 1
    /\ rollback_boundaries[1] > 0
    /\ rollback_boundaries[1] < Len(assumptions)

\* C24: assume of a literal whose variable the trail binds to the literal's
\* polarity returns true and appends the literal again, and get_var and
\* get_lit are as before for every variable and literal; so it is in
\* propagate, where a literal of the worklist that is Assume(true) already
\* goes on the trail a second time.
C24_DuplicateAssume ==
    /\ []((/\ call.op = "assume"
            /\ get_var(call.before.assumptions, call.lit.variable)
                   = Assume(call.lit.polarity)) =>
              /\ call.ret
              /\ assumptions = Append(call.before.assumptions, call.lit)
              /\ Len(assumptions) = Len(call.before.assumptions) + 1
              /\ \A v \in Variables :
                     get_var(assumptions, v) = get_var(call.before.assumptions, v)
              /\ \A l \in Literals :
                     get_lit(assumptions, l) = get_lit(call.before.assumptions, l))
    /\ [][(/\ pc = "propagate"
           /\ worklist # <<>>
           /\ get_lit(assumptions, Head(worklist)) = Assume(TRUE)) =>
              assumptions' = Append(assumptions, Head(worklist))]_vars

\* satisfiable has returned a trail that holds a literal twice.
C24_Witness ==
    /\ pc = "done"
    /\ result = "Some"
    /\ \E i, j \in 1..Len(assumptions) : i < j /\ assumptions[i] = assumptions[j]

\* C25: when make_guess has returned true (propagate, then eliminate), no
\* clause is unsatisfiable under the trail; so the is_unsatisfiable check at
\* the top of the loop of satisfiable returns None only in the first
\* iteration, on the empty trail, where the input holds an empty clause.
C25_NoUnsatisfiableAfterGuess ==
    /\ []((pc = "loop" /\ guesses_true > 0) =>
              ~any_unsatisfiable(clauses, assumptions))
    /\ [][(pc = "propagate" /\ pc' = "loop") =>
              \A i \in 1..Len(clauses) : ~is_unsatisfiable(clauses[i], assumptions')]_vars
    /\ [][(pc = "loop" /\ result' = "None") =>
              /\ guesses_true = 0
              /\ assumptions = <<>>
              /\ \E i \in 1..Len(clauses) : clauses[i] = <<>>]_vars

\* make_guess has returned true a second time, with a literal of propagate
\* behind the second guess on the trail.
C25_Witness ==
    /\ pc = "loop"
    /\ guesses_true = 2
    /\ Len(assumptions) = 3
    /\ assumptions[2] = new_lit
    /\ Len(clauses) >= 2
    /\ ~any_unsatisfiable(clauses, assumptions)

\* C26: the exit of satisfiable for "no more unknown variables" is never
\* taken.  At the top of the loop, when not every clause is satisfied and no
\* clause is unsatisfiable, get_next_variable returns Some; and satisfiable
\* returns Some only through the check that every clause is satisfied.
C26_NoUnknownExitUnreachable ==
    /\ []((/\ pc = "loop"
            /\ ~all_satisfied(clauses, assumptions)
            /\ ~any_unsatisfiable(clauses, assumptions)) =>
              get_next_variable(var_set(clauses), assumptions) # None)
    /\ [](result = "Some" => all_satisfied(clauses, assumptions))
    /\ [][(pc = "loop" /\ result' = "Some") =>
              all_satisfied(clauses, assumptions)]_vars

\* The top of the loop after a guess, with a clause neither satisfied nor
\* unsatisfiable and the first candidate bound: the next variable is 2.
C26_Witness ==
    /\ pc = "loop"
    /\ guesses_true = 1
    /\ get_var(assumptions, 1) # Unknown
    /\ ~all_satisfied(clauses, assumptions)
    /\ ~any_unsatisfiable(clauses, assumptions)
    /\ get_next_variable(var_set(clauses), assumptions) = Some(Literal(2, TRUE))

\* Some total assignment agrees with every entry of the trail T and
\* satisfies every clause of cls.
ExtendableSat(cls, T) ==
    \E f \in [Variables -> BOOLEAN] :
        /\ \A k \in 1..Len(T) : f[T[k].variable] = T[k].polarity
        /\ \A i \in 1..Len(cls) : \E j \in 1..Len(cls[i]) :
               f[cls[i][j].variable] = cls[i][j].polarity

\* C27: pure literal elimination preserves satisfiability.  When a total
\* assignment extending the trail eliminate was called with satisfies every
\* clause, a total assignment extending the trail eliminate leaves does so
\* too; and a clause that was not unsatisfiable before eliminate is not
\* unsatisfiable after it.
C27_EliminatePreservesSat ==
    pc = "eliminated" =>
        /\ ExtendableSat(clauses, entry.assumptions) =>
               ExtendableSat(clauses, assumptions)
        /\ \A i \in 1..Len(clauses) :
               ~is_unsatisfiable(clauses[i], entry.assumptions) =>
                   ~is_unsatisfiable(clauses[i], assumptions)

\* eliminate was called with a trail that a satisfying assignment extends and
\* that leaves a clause open, and has assumed a pure literal of that clause.
C27_Witness ==
    /\ pc = "eliminated"
    /\ entry.assumptions # <<>>
    /\ pure # <<>>
    /\ Len(assumptions) > Len(entry.assumptions)
    /\ ExtendableSat(clauses, entry.assumptions)
    /\ \E i \in 1..Len(clauses) :
           /\ ~is_satisfied(clauses[i], entry.assumptions)
           /\ \E j \in 1..Len(clauses[i]) :
                  get_lit(entry.assumptions, clauses[i][j]) = Assume(FALSE)
           /\ is_satisfied(clauses[i], assumptions)
====
